---- MODULE Spec2Model ----
(***************************************************************************)
(* Model of the chat application:                                          *)
(*   - the client-side fetch-with-backoff loops (App.fetchDataWithBackoff, *)
(*     Sidebar.fetchSessions, Sidebar.createSession);                      *)
(*   - the backend's D-ID avatar handler with its poll loop;               *)
(*   - the backend's auth middleware and routes over the User, Session and *)
(*     Message collections;                                                *)
(*   - the App component's mount effect and its sendPrompt action, run     *)
(*     against the backend that serves /api/groq.                          *)
(***************************************************************************)
EXTENDS Integers, Sequences, FiniteSets, TLC

VARIABLES
    \* ---- client retry loop (one call in flight) ----
    site,       \* which copy of the loop runs: "App", "fetchSessions", "createSession"
    pc,         \* "idle" | "loop" (suspended between iterations) | "returned" | "raised"
    retries,    \* the loop's retry counter
    nreq,       \* number of fetch() calls issued by this call
    sleeps,     \* sequence of the setTimeout delays awaited by this call
    hist,       \* sequence of per-attempt outcomes the environment produced
    result,     \* what the caller gets: returned value or raised error
    effect,     \* UI state change done on success ("none", "setSessions", "selectSession")
    \* ---- backend POST /api/did handler (one request, past the auth middleware) ----
    dpc,        \* "idle" | "creating" | "waiting" | "polling" | "done"
    created,    \* outcome of the job-creation request
    videoUrl,   \* the handler's videoUrl local
    dwaits,     \* number of setTimeout waits of the poll loop
    delapsed,   \* total time waited in the poll loop
    dhist,      \* sequence of outcomes of the status-poll requests
    dresp,      \* the HTTP response of the handler
    \* ---- backend store and the requests in flight ----
    users,      \* User collection: the set of userId values
    sessions,   \* Session collection: records [id, userId, title, createdAt]
    messages,   \* Message collection: records [id, sessionId, role, text, timestamp]
    nextSid,    \* next fresh Session _id
    nextMid,    \* next fresh Message _id
    now,        \* the server clock (Date.now)
    reqs,       \* per connection slot: the request being handled, or FreeReq
    lastResp,   \* the response sent most recently
    \* ---- the App component ----
    sessionId,  \* App state sessionId (0 stands for null)
    mpc,        \* mount effect: "idle" | "list" | "create" | "done" | "failed"
    mretries,   \* retry counter of the mount effect's current fetchDataWithBackoff call
    mounts,     \* how many times the page was loaded
    tpc,        \* per sendPrompt action: "idle" | "saveUser" | "chat" | "saveBot" | "done" | "failed"
    tretries,   \* per sendPrompt action: retry counter of its current fetchDataWithBackoff call
    reply,      \* per sendPrompt action: the reply text received ("" before that)
    isLoading,  \* App state isLoading
    faults      \* how many fetches of sendPrompt actions ended without a 2xx response

fetchVars == <<site, pc, retries, nreq, sleeps, hist, result, effect>>

didVars == <<dpc, created, videoUrl, dwaits, delapsed, dhist, dresp>>

storeVars == <<users, sessions, messages>>

backVars == <<users, sessions, messages, nextSid, nextMid, now, reqs, lastResp>>

appVars == <<sessionId, mpc, mretries, mounts, tpc, tretries, reply, isLoading, faults>>

vars == <<fetchVars, didVars, backVars, appVars>>

\* what the steps of each component leave alone
nonFetchVars == <<didVars, backVars, appVars>>

nonDidVars == <<fetchVars, backVars, appVars>>

nonBackVars == <<fetchVars, didVars, appVars>>

\* the App's steps act on the store through the requests they send
nonAppVars == <<fetchVars, didVars, reqs, lastResp>>

----------------------------------------------------------------------------
(* Bounds of the environment *)

\* samples of Math.random() * 1000, which lies in [0, 1000)
Jitters == {0, 500, 999}

\* HTTP statuses the server may answer with
Statuses == {200, 201, 404, 429, 500}

\* how many status polls without a result the avatar service may give to one job
MaxPendingPolls == 3

\* how many documents (sessions and messages together) are created in one run
MaxDocs == 2

\* how many times the page is loaded, and how many sessions exist, in one run
\* of the mount effect's model
MaxMounts == 3

\* how many messages are stored in one run of the sendPrompt model
MaxChatMsgs == 4

\* how many fetches of the sendPrompt actions fail in one run
MaxFaults == 3

----------------------------------------------------------------------------
(* Client retry loop *)

maxRetries == 3

initialDelay == 1000

Sites == {"App", "fetchSessions", "createSession"}

\* outcome of one fetch(): a response with a status, or a rejected promise
Outcomes == [net : {FALSE}, status : Statuses] \cup {[net |-> TRUE, status |-> 0]}

NoErr == [type |-> "none", status |-> 0]

NetworkError == [type |-> "NetworkError", status |-> 0]

HttpError(st) == [type |-> "HttpError", status |-> st]

MaxRetriesError == [type |-> "MaxRetries", status |-> 0]

NoResult == [kind |-> "none", status |-> 0, err |-> NoErr]

\* res.ok
IsOk(st) == st >= 200 /\ st <= 299

RECURSIVE Pow2(_)
Pow2(n) == IF n = 0 THEN 1 ELSE 2 * Pow2(n - 1)

BackoffDelay_linear(r, j) == initialDelay * (r + 1) + j

\* initialDelay * Math.pow(2, retries) + Math.random() * 1000
BackoffDelay(r, j) == initialDelay * Pow2(r) + j

LoopCond_wide(r) == r < maxRetries + 2

LoopCond_short(r) == r < maxRetries - 1

\* while (retries < maxRetries)
LoopCond(r) == r < maxRetries

\* res.status === 429
IsRateLimit(st) == st = 429

\* if (retries === maxRetries - 1) throw error
IsLastAttempt(r) == r = maxRetries - 1

HasFinalThrow_none(s) == FALSE

\* the statement after the while loop: App throws, the Sidebar copies fall
\* off the end of the function
HasFinalThrow(s) == s = "App"

\* what the success path does besides returning
SuccessEffect(s) ==
    IF s = "fetchSessions" THEN "setSessions"
    ELSE IF s = "createSession" THEN "selectSession"
    ELSE "none"

\* value of `return res` (App) or `return` (Sidebar)
SuccessResult(s, st) ==
    IF s = "App" THEN [kind |-> "returned", status |-> st, err |-> NoErr]
    ELSE [kind |-> "returned", status |-> 0, err |-> NoErr]

\* the try block: what one iteration does with the outcome of fetch()
\*   "return"   - return res
\*   "backoff"  - the 429 branch: sleep, retries++, continue
\*   "throw"    - an exception raised inside the try block (rejected fetch,
\*                or the `throw new Error("HTTP error! ...")`)
TryBody(o) ==
    IF o.net THEN [act |-> "throw", err |-> NetworkError]
    ELSE IF ~IsOk(o.status)
         THEN IF IsRateLimit(o.status)
              THEN [act |-> "backoff", err |-> NoErr]
              ELSE [act |-> "throw", err |-> HttpError(o.status)]
         ELSE [act |-> "return", err |-> NoErr]

\* control after an iteration that did retries++: re-test the loop condition,
\* and run the statement after the loop when it fails
AfterIncrement(r) ==
    IF LoopCond(r)
    THEN /\ pc' = "loop"
         /\ result' = NoResult
    ELSE IF HasFinalThrow(site)
         THEN /\ pc' = "raised"
              /\ result' = [kind |-> "raised", status |-> 0, err |-> MaxRetriesError]
         ELSE /\ pc' = "returned"
              /\ result' = [kind |-> "returned", status |-> 0, err |-> NoErr]

\* a caller starts a fresh call (retries defaults to 0)
FetchCall(s) ==
    /\ pc \in {"idle", "returned", "raised"}
    /\ site' = s
    /\ pc' = "loop"
    /\ retries' = 0
    /\ nreq' = 0
    /\ sleeps' = <<>>
    /\ hist' = <<>>
    /\ result' = NoResult
    /\ effect' = "none"
    /\ UNCHANGED nonFetchVars

\* one iteration whose fetch resolves with res.ok
AttemptOk(o) ==
    /\ pc = "loop" /\ LoopCond(retries)
    /\ TryBody(o).act = "return"
    /\ nreq' = nreq + 1
    /\ hist' = Append(hist, o)
    /\ pc' = "returned"
    /\ result' = SuccessResult(site, o.status)
    /\ effect' = SuccessEffect(site)
    /\ UNCHANGED <<site, retries, sleeps>>
    /\ UNCHANGED nonFetchVars

\* one iteration whose fetch resolves with 429
AttemptRateLimited(o, j) ==
    /\ pc = "loop" /\ LoopCond(retries)
    /\ TryBody(o).act = "backoff"
    /\ nreq' = nreq + 1
    /\ hist' = Append(hist, o)
    /\ sleeps' = Append(sleeps, BackoffDelay(retries, j))
    /\ retries' = retries + 1
    /\ AfterIncrement(retries + 1)
    /\ UNCHANGED <<site, effect>>
    /\ UNCHANGED nonFetchVars

\* one iteration that ends in the catch block
AttemptCaught(o, j) ==
    /\ pc = "loop" /\ LoopCond(retries)
    /\ TryBody(o).act = "throw"
    /\ nreq' = nreq + 1
    /\ hist' = Append(hist, o)
    /\ IF IsLastAttempt(retries)
       THEN /\ pc' = "raised"
            /\ result' = [kind |-> "raised", status |-> 0, err |-> TryBody(o).err]
            /\ UNCHANGED <<retries, sleeps>>
       ELSE /\ sleeps' = Append(sleeps, BackoffDelay(retries, j))
            /\ retries' = retries + 1
            /\ AfterIncrement(retries + 1)
    /\ UNCHANGED <<site, effect>>
    /\ UNCHANGED nonFetchVars

FetchInit ==
    /\ site = "App"
    /\ pc = "idle"
    /\ retries = 0
    /\ nreq = 0
    /\ sleeps = <<>>
    /\ hist = <<>>
    /\ result = NoResult
    /\ effect = "none"

FetchNext ==
    \/ \E s \in Sites : FetchCall(s)
    \/ \E o \in Outcomes : AttemptOk(o)
    \/ \E o \in Outcomes, j \in Jitters : AttemptRateLimited(o, j)
    \/ \E o \in Outcomes, j \in Jitters : AttemptCaught(o, j)

----------------------------------------------------------------------------
(* Backend: D-ID talking avatar proxy *)

pollInterval_short == 2000 \div 2

\* setTimeout(r, 2000)
pollInterval == 2000

\* JavaScript values of a JSON field that may be missing: "undefined" is the
\* absent field, "null" the JSON null, "" the empty string
Absent == {"undefined", "null"}

Falsy(v) == v \in Absent \cup {""}

JobIds == {"undefined", "null", "", "tlk_1"}

ResultUrls == {"undefined", "null", "", "X", "Y"}

\* outcome of `fetch(talks)` followed by `createRes.json()`
CreateOutcomes == [thrown : {FALSE}, id : JobIds] \cup {[thrown |-> TRUE, id |-> "undefined"]}

\* outcome of `fetch(pollUrl)` followed by `pollRes.json()`
PollOutcomes == [thrown : {FALSE}, url : ResultUrls] \cup {[thrown |-> TRUE, url |-> "undefined"]}

NoCreate == [thrown |-> FALSE, id |-> "unset"]

NoResp == [status |-> 0, body |-> "none"]

IdMissing_never(id) == FALSE

\* if (!id)
IdMissing(id) == Falsy(id)

LoopContinues_onlyNull(v) == v = "null"

\* while (!videoUrl)
LoopContinues(v) == Falsy(v)

PendingPolls(h) == Cardinality({i \in 1..Len(h) : ~h[i].thrown /\ Falsy(h[i].url)})

\* the request arrives and the handler sends the job-creation request
DidStart ==
    /\ dpc \in {"idle", "done"}
    /\ dpc' = "creating"
    /\ created' = NoCreate
    /\ videoUrl' = "null"
    /\ dwaits' = 0
    /\ delapsed' = 0
    /\ dhist' = <<>>
    /\ dresp' = NoResp
    /\ UNCHANGED nonDidVars

\* the creation response arrives: catch block, missing id, or start of the loop
DidCreated(c) ==
    /\ dpc = "creating"
    /\ created' = c
    /\ IF c.thrown
       THEN /\ dpc' = "done"
            /\ dresp' = [status |-> 500, body |-> "D-ID API failed"]
       ELSE IF IdMissing(c.id)
       THEN /\ dpc' = "done"
            /\ dresp' = [status |-> 500, body |-> "Failed to start D-ID generation"]
       ELSE /\ dpc' = IF LoopContinues(videoUrl) THEN "waiting" ELSE "done"
            /\ dresp' = IF LoopContinues(videoUrl) THEN NoResp
                        ELSE [status |-> 200, body |-> videoUrl]
    /\ UNCHANGED <<videoUrl, dwaits, delapsed, dhist>>
    /\ UNCHANGED nonDidVars

\* the loop's timer fires and the status request is sent
DidTimerFired ==
    /\ dpc = "waiting"
    /\ dwaits' = dwaits + 1
    /\ delapsed' = delapsed + pollInterval
    /\ dpc' = "polling"
    /\ UNCHANGED <<created, videoUrl, dhist, dresp>>
    /\ UNCHANGED nonDidVars

\* the status response arrives: videoUrl = pollData.result_url, then the loop
\* test; a rejected request or unparsable body lands in the catch block
DidPolled(p) ==
    /\ dpc = "polling"
    /\ (~p.thrown /\ Falsy(p.url)) => PendingPolls(dhist) < MaxPendingPolls
    /\ dhist' = Append(dhist, p)
    /\ IF p.thrown
       THEN /\ dpc' = "done"
            /\ dresp' = [status |-> 500, body |-> "D-ID API failed"]
            /\ UNCHANGED videoUrl
       ELSE /\ videoUrl' = p.url
            /\ dpc' = IF LoopContinues(p.url) THEN "waiting" ELSE "done"
            /\ dresp' = IF LoopContinues(p.url) THEN NoResp
                        ELSE [status |-> 200, body |-> p.url]
    /\ UNCHANGED <<created, dwaits, delapsed>>
    /\ UNCHANGED nonDidVars

DidInit ==
    /\ dpc = "idle"
    /\ created = NoCreate
    /\ videoUrl = "null"
    /\ dwaits = 0
    /\ delapsed = 0
    /\ dhist = <<>>
    /\ dresp = NoResp

DidNext ==
    \/ DidStart
    \/ \E c \in CreateOutcomes : DidCreated(c)
    \/ DidTimerFired
    \/ \E p \in PollOutcomes : DidPolled(p)


----------------------------------------------------------------------------
(* Backend: auth middleware, session / message / user routes, proxies *)

UserIds == {"u1", "u2"}

\* value of req.headers['x-user-id']; "" stands for the absent header
Headers == UserIds \cup {""}

Slots == {"c1", "c2"}

\* the slots SpecBackend uses: it handles one request at a time
SerialSlots == {"c1"}

SessionIds == 1..MaxDocs

Titles == {"", "T"}

Roles == {"user", "bot"}

StoreRoutes == {"POST /api/sessions", "GET /api/sessions", "GET /api/sessions/:sid/messages",
                "POST /api/sessions/:sid/messages", "PATCH /api/sessions/:sid",
                "DELETE /api/sessions/:sid", "POST /api/users"}

ProxyRoutes == {"POST /api/gemini", "POST /api/speak", "POST /api/did"}

Routes == StoreRoutes \cup ProxyRoutes \cup {"GET /chats"}

FreeReq == [pc |-> "free", route |-> "none", hdr |-> "", sid |-> 0, title |-> "",
            role |-> "", buser |-> "", user |-> ""]

\* the requests a client may send: only the fields a route reads vary; a
\* client names a session that was created, or one id that is not in the store
Requests ==
    LET base(rt, h) == [pc |-> "new", route |-> rt, hdr |-> h, sid |-> 0, title |-> "",
                        role |-> "", buser |-> "", user |-> ""]
    IN  UNION {
          {[base("POST /api/sessions", h) EXCEPT !.title = t] : t \in Titles}
          \cup {base("GET /api/sessions", h), base("GET /chats", h)}
          \cup {[base("GET /api/sessions/:sid/messages", h) EXCEPT !.sid = i] : i \in SessionIds}
          \cup {[base("POST /api/sessions/:sid/messages", h) EXCEPT !.sid = i, !.role = ro] :
                    i \in SessionIds, ro \in Roles}
          \cup {[base("PATCH /api/sessions/:sid", h) EXCEPT !.sid = i, !.title = t] :
                    i \in SessionIds, t \in Titles}
          \cup {[base("DELETE /api/sessions/:sid", h) EXCEPT !.sid = i] : i \in SessionIds}
          \cup {[base("POST /api/users", h) EXCEPT !.buser = u] : u \in Headers}
          \cup {base(rt, h) : rt \in ProxyRoutes}
          : h \in Headers}

NoLastResp == [hdr |-> "none", status |-> 0, data |-> <<>>, ran |-> FALSE]

HeaderMissing_never(h) == FALSE

\* if (!userId)
HeaderMissing(h) == h = ""

\* the response leaves and the connection slot is free again
Respond(r, st, d) ==
    /\ lastResp' = [hdr |-> reqs[r].hdr, status |-> st, data |-> d,
                    ran |-> reqs[r].pc \notin {"new", "mwFind", "mwCreate"}]
    /\ reqs' = [reqs EXCEPT ![r] = FreeReq]

\* a rejected promise nobody catches; what follows depends on the Express and
\* Node versions the server runs on: the rejection is dropped and the request
\* is never answered (recorded as status 0), or it reaches the default error
\* handler (500), or the process exits and every request in flight is dropped
Unanswered(r) ==
    \/ Respond(r, 0, <<>>)
    \/ Respond(r, 500, <<>>)
    \/ /\ lastResp' = [hdr |-> reqs[r].hdr, status |-> 0, data |-> <<>>,
                       ran |-> reqs[r].pc \notin {"new", "mwFind", "mwCreate"}]
       /\ reqs' = [x \in Slots |-> FreeReq]

\* all orders of the elements of S
Perms(S) ==
    {q \in [1..Cardinality(S) -> S] : \A x \in S : \E i \in 1..Cardinality(S) : q[i] = x}

\* auth middleware, up to its first await: 401 without the header, else
\* User.findOne is issued
AuthMiddleware(r, q) ==
    /\ reqs[r].pc = "free"
    /\ q.sid <= nextSid
    /\ IF HeaderMissing(q.hdr)
       THEN /\ lastResp' = [hdr |-> q.hdr, status |-> 401, data |-> <<>>, ran |-> FALSE]
            /\ UNCHANGED reqs
       ELSE /\ reqs' = [reqs EXCEPT ![r] = [q EXCEPT !.pc = "mwFind"]]
            /\ lastResp' = NoLastResp
    /\ UNCHANGED <<users, sessions, messages, nextSid, nextMid, now>>
    /\ UNCHANGED nonBackVars

\* User.findOne resolves: next() with the user found, or User.create is issued
MwFound(r) ==
    /\ reqs[r].pc = "mwFind"
    /\ reqs' = [reqs EXCEPT ![r] =
                  IF reqs[r].hdr \in users
                  THEN [@ EXCEPT !.pc = "handler", !.user = reqs[r].hdr]
                  ELSE [@ EXCEPT !.pc = "mwCreate"]]
    /\ UNCHANGED <<users, sessions, messages, nextSid, nextMid, now, lastResp>>
    /\ UNCHANGED nonBackVars

\* User.create resolves (next()), or rejects on the unique index
MwCreated(r) ==
    /\ reqs[r].pc = "mwCreate"
    /\ IF reqs[r].hdr \in users
       THEN /\ Unanswered(r)
            /\ UNCHANGED users
       ELSE /\ users' = users \cup {reqs[r].hdr}
            /\ reqs' = [reqs EXCEPT ![r] = [@ EXCEPT !.pc = "handler", !.user = reqs[r].hdr]]
            /\ UNCHANGED lastResp
    /\ UNCHANGED <<sessions, messages, nextSid, nextMid, now>>
    /\ UNCHANGED nonBackVars

\* the values the clock takes: it starts at 1 and each write advances it by
\* at most one
Times == 1..(MaxDocs + 1)

\* Date.now() at a write: the clock has advanced since the last stamp, or not
Stamps == {now, now + 1}

\* Session.find({ userId })
SessionsOf(u) == {x \in sessions : x.userId = u}

\* Message.find({ sessionId })
MessagesOf(sid) == {x \in messages : x.sessionId = sid}

InHandler(r, rt) == reqs[r].pc = "handler" /\ reqs[r].route = rt

\* app.post('/api/sessions')
CreateSession(r, t) ==
    /\ InHandler(r, "POST /api/sessions")
    /\ t \in Stamps
    /\ (nextSid - 1) + (nextMid - 1) < MaxDocs
    /\ sessions' = sessions \cup
          {[id |-> nextSid, userId |-> reqs[r].user,
            title |-> IF reqs[r].title = "" THEN "New Chat" ELSE reqs[r].title,
            createdAt |-> t]}
    /\ nextSid' = nextSid + 1
    /\ now' = t
    /\ Respond(r, 200, <<nextSid>>)
    /\ UNCHANGED <<users, messages, nextMid>>
    /\ UNCHANGED nonBackVars

\* app.get('/api/sessions'): the caller's sessions, newest first
ListSessions(r) ==
    /\ InHandler(r, "GET /api/sessions")
    /\ \E q \in Perms(SessionsOf(reqs[r].user)) :
          /\ \A i, j \in 1..Len(q) : i < j => q[i].createdAt >= q[j].createdAt
          /\ Respond(r, 200, [i \in 1..Len(q) |-> q[i].id])
    /\ UNCHANGED <<users, sessions, messages, nextSid, nextMid, now>>
    /\ UNCHANGED nonBackVars

\* app.get('/api/sessions/:sid/messages'): the session's messages, oldest first
GetMessages(r) ==
    /\ InHandler(r, "GET /api/sessions/:sid/messages")
    /\ \E q \in Perms(MessagesOf(reqs[r].sid)) :
          /\ \A i, j \in 1..Len(q) : i < j => q[i].timestamp <= q[j].timestamp
          /\ Respond(r, 200, [i \in 1..Len(q) |-> q[i].id])
    /\ UNCHANGED <<users, sessions, messages, nextSid, nextMid, now>>
    /\ UNCHANGED nonBackVars

\* app.post('/api/sessions/:sid/messages')
PostMessage(r, t) ==
    /\ InHandler(r, "POST /api/sessions/:sid/messages")
    /\ t \in Stamps
    /\ (nextSid - 1) + (nextMid - 1) < MaxDocs
    /\ messages' = messages \cup
          {[id |-> nextMid, sessionId |-> reqs[r].sid, role |-> reqs[r].role,
            text |-> "hi", timestamp |-> t]}
    /\ nextMid' = nextMid + 1
    /\ now' = t
    /\ Respond(r, 200, <<nextMid>>)
    /\ UNCHANGED <<users, sessions, nextSid>>
    /\ UNCHANGED nonBackVars

\* app.get("/chats"): Chat is not defined, the catch answers 500
GetChats(r) ==
    /\ InHandler(r, "GET /chats")
    /\ Respond(r, 500, <<>>)
    /\ UNCHANGED <<users, sessions, messages, nextSid, nextMid, now>>
    /\ UNCHANGED nonBackVars

\* the session the caller owns under this id, if any
Owned(r) == {x \in sessions : x.id = reqs[r].sid /\ x.userId = reqs[r].user}

\* app.patch('/api/sessions/:sid'); an absent title leaves the title as it is
RenameSession(r) ==
    /\ InHandler(r, "PATCH /api/sessions/:sid")
    /\ IF Owned(r) = {}
       THEN /\ Respond(r, 404, <<>>)
            /\ UNCHANGED sessions
       ELSE /\ sessions' = (sessions \ Owned(r)) \cup
                  {[x EXCEPT !.title = IF reqs[r].title = "" THEN @ ELSE reqs[r].title] :
                      x \in Owned(r)}
            /\ Respond(r, 200, <<reqs[r].sid>>)
    /\ UNCHANGED <<users, messages, nextSid, nextMid, now>>
    /\ UNCHANGED nonBackVars

DeleteMessages_keep(r) ==
    /\ InHandler(r, "DELETE /api/sessions/:sid")
    /\ reqs' = [reqs EXCEPT ![r] = [@ EXCEPT !.pc = "deleteSession"]]
    /\ UNCHANGED <<users, sessions, messages, nextSid, nextMid, now, lastResp>>
    /\ UNCHANGED nonBackVars

\* app.delete('/api/sessions/:sid'), first await: Message.deleteMany
DeleteMessages(r) ==
    /\ InHandler(r, "DELETE /api/sessions/:sid")
    /\ messages' = {x \in messages : x.sessionId # reqs[r].sid}
    /\ reqs' = [reqs EXCEPT ![r] = [@ EXCEPT !.pc = "deleteSession"]]
    /\ UNCHANGED <<users, sessions, nextSid, nextMid, now, lastResp>>
    /\ UNCHANGED nonBackVars

\* app.delete('/api/sessions/:sid'), second await: Session.findOneAndDelete
DeleteSession(r) ==
    /\ reqs[r].pc = "deleteSession"
    /\ IF Owned(r) = {}
       THEN /\ Respond(r, 404, <<>>)
            /\ UNCHANGED sessions
       ELSE /\ sessions' = sessions \ Owned(r)
            /\ Respond(r, 204, <<>>)
    /\ UNCHANGED <<users, messages, nextSid, nextMid, now>>
    /\ UNCHANGED nonBackVars

\* app.post('/api/users'), up to User.findOne resolving
RegisterFind(r) ==
    /\ InHandler(r, "POST /api/users")
    /\ IF reqs[r].buser = ""
       THEN Respond(r, 400, <<>>)
       ELSE IF reqs[r].buser \in users
       THEN Respond(r, 409, <<>>)
       ELSE /\ reqs' = [reqs EXCEPT ![r] = [@ EXCEPT !.pc = "registerCreate"]]
            /\ UNCHANGED lastResp
    /\ UNCHANGED <<users, sessions, messages, nextSid, nextMid, now>>
    /\ UNCHANGED nonBackVars

\* app.post('/api/users'): User.create resolves, or rejects on the unique index
RegisterCreate(r) ==
    /\ reqs[r].pc = "registerCreate"
    /\ IF reqs[r].buser \in users
       THEN /\ Unanswered(r)
            /\ UNCHANGED users
       ELSE /\ users' = users \cup {reqs[r].buser}
            /\ Respond(r, 201, <<>>)
    /\ UNCHANGED <<sessions, messages, nextSid, nextMid, now>>
    /\ UNCHANGED nonBackVars

\* the Gemini, Deepgram and D-ID proxies: the external call succeeds or fails
Proxy(r, ok) ==
    /\ reqs[r].pc = "handler" /\ reqs[r].route \in ProxyRoutes
    /\ Respond(r, IF ok THEN 200 ELSE 500, <<>>)
    /\ UNCHANGED <<users, sessions, messages, nextSid, nextMid, now>>
    /\ UNCHANGED nonBackVars

BackInit ==
    /\ users = {}
    /\ sessions = {}
    /\ messages = {}
    /\ nextSid = 1
    /\ nextMid = 1
    /\ now = 1
    /\ reqs = [r \in Slots |-> FreeReq]
    /\ lastResp = NoLastResp

BackNext ==
    \/ \E r \in SerialSlots, q \in Requests : AuthMiddleware(r, q)
    \/ \E r \in SerialSlots : MwFound(r)
    \/ \E r \in SerialSlots : MwCreated(r)
    \/ \E r \in SerialSlots, t \in Times : CreateSession(r, t)
    \/ \E r \in SerialSlots : ListSessions(r)
    \/ \E r \in SerialSlots : GetMessages(r)
    \/ \E r \in SerialSlots, t \in Times : PostMessage(r, t)
    \/ \E r \in SerialSlots : GetChats(r)
    \/ \E r \in SerialSlots : RenameSession(r)
    \/ \E r \in SerialSlots : DeleteMessages(r)
    \/ \E r \in SerialSlots : DeleteSession(r)
    \/ \E r \in SerialSlots : RegisterFind(r)
    \/ \E r \in SerialSlots : RegisterCreate(r)
    \/ \E r \in SerialSlots, ok \in BOOLEAN : Proxy(r, ok)

\* the server process stops between the two awaits of the delete handler:
\* every request in flight is dropped, the store stays as it is
CrashInDelete(r) ==
    /\ reqs[r].pc = "deleteSession"
    /\ reqs' = [x \in Slots |-> FreeReq]
    /\ lastResp' = [hdr |-> "crash", status |-> 0, data |-> <<reqs[r].sid>>, ran |-> TRUE]
    /\ UNCHANGED <<users, sessions, messages, nextSid, nextMid, now>>
    /\ UNCHANGED nonBackVars

\* the requests of the concurrent runs: one not yet registered caller, one
\* session id, the routes that write the store, registration of a second user
RaceUser == "u1"

RaceRequests ==
    {q \in Requests :
        /\ q.hdr = RaceUser
        /\ q.route \in {"POST /api/sessions", "GET /api/sessions",
                        "POST /api/sessions/:sid/messages",
                        "DELETE /api/sessions/:sid", "POST /api/users"}
        /\ q.sid \in {0, 1}
        /\ q.title = ""
        /\ q.role \in {"", "user"}
        /\ q.buser \in {"", "u2"}}

\* two connections served at once: the handlers interleave at their awaits
RaceNext ==
    \/ \E r \in Slots, q \in RaceRequests : AuthMiddleware(r, q)
    \/ \E r \in Slots : MwFound(r)
    \/ \E r \in Slots : MwCreated(r)
    \/ \E r \in Slots, t \in Times : CreateSession(r, t)
    \/ \E r \in Slots : ListSessions(r)
    \/ \E r \in Slots, t \in Times : PostMessage(r, t)
    \/ \E r \in Slots : DeleteMessages(r)
    \/ \E r \in Slots : DeleteSession(r)
    \/ \E r \in Slots : RegisterFind(r)
    \/ \E r \in Slots : RegisterCreate(r)
    \/ \E r \in Slots : CrashInDelete(r)

----------------------------------------------------------------------------
(* The App component: mount effect and sendPrompt *)

\* localStorage user_id, set by the first effect before the mount effect runs
CurrentUser == "u1"

\* the literal "dummy-user-123"
DummyUser == "u2"

\* the X-User-Id header of the mount effect's GET /api/sessions
MountListHeader == DummyUser

\* concurrent sendPrompt actions of one page
Turns == {1, 2}

\* input.trim() of each action
Prompt(k) == IF k = 1 THEN "p1" ELSE "p2"

\* chatCompletion.choices[0].message.content for a prompt
Completion(p) == IF p = "p1" THEN "r1" ELSE "r2"

\* what becomes of one fetch(): the request is lost, a proxy answers 429, the
\* handler fails with 500, the handler runs and its response arrives, or the
\* handler runs and its response is lost
Deliveries == {"lost", "limited", "failed", "served", "servedLost"}

Handled(d) == d \in {"served", "servedLost"}

\* the outcome fetch() gives the client when the handler answers st
ClientSees(d, st) ==
    IF d \in {"lost", "servedLost"} THEN [net |-> TRUE, status |-> 0]
    ELSE IF d = "limited" THEN [net |-> FALSE, status |-> 429]
    ELSE IF d = "failed" THEN [net |-> FALSE, status |-> 500]
    ELSE [net |-> FALSE, status |-> st]

\* one iteration of App.fetchDataWithBackoff at retry counter r: the call
\* returns the response, goes round the loop again, or raises
AppIteration(r, o) ==
    LET b == TryBody(o)
    IN  IF b.act = "return" THEN [next |-> "return", retries |-> r]
        ELSE IF b.act = "throw" /\ IsLastAttempt(r) THEN [next |-> "raise", retries |-> r]
        ELSE IF LoopCond(r + 1) THEN [next |-> "again", retries |-> r + 1]
        ELSE IF HasFinalThrow("App") THEN [next |-> "raise", retries |-> r + 1]
        ELSE [next |-> "return", retries |-> r + 1]

\* the auth middleware when no other request of the user is in its way
ServeAuth(h) == users \cup {h}

\* Session.find({ userId }).sort('-createdAt')
SessionsNewestFirst(h) ==
    {q \in Perms(SessionsOf(h)) :
        \A i, j \in 1..Len(q) : i < j => q[i].createdAt >= q[j].createdAt}

\* Session.create({ userId, title }) behind the middleware
ServeCreateSession(h, title, t) ==
    /\ users' = ServeAuth(h)
    /\ sessions' = sessions \cup
          {[id |-> nextSid, userId |-> h, title |-> title, createdAt |-> t]}
    /\ nextSid' = nextSid + 1
    /\ now' = t

\* the page is loaded: fresh component state, the mount effect starts
MountStart ==
    /\ mpc \in {"idle", "done", "failed"}
    /\ mounts < MaxMounts
    /\ mounts' = mounts + 1
    /\ sessionId' = 0
    /\ mpc' = "list"
    /\ mretries' = 0
    /\ tpc' = [k \in Turns |-> "idle"]
    /\ tretries' = [k \in Turns |-> 0]
    /\ reply' = [k \in Turns |-> ""]
    /\ isLoading' = FALSE
    /\ UNCHANGED faults
    /\ UNCHANGED <<users, sessions, messages, nextSid, nextMid, now>>
    /\ UNCHANGED nonAppVars

\* one attempt of the mount effect's GET /api/sessions, and on its success
\* the .then: select sessions[0], or go on to create a session
MountList(d) ==
    /\ mpc = "list" /\ LoopCond(mretries)
    /\ users' = IF Handled(d) THEN ServeAuth(MountListHeader) ELSE users
    /\ LET it == AppIteration(mretries, ClientSees(d, 200))
       IN  IF it.next = "return"
           THEN \E q \in SessionsNewestFirst(MountListHeader) :
                   IF Len(q) > 0
                   THEN /\ sessionId' = q[1].id
                        /\ mpc' = "done"
                        /\ UNCHANGED mretries
                   ELSE /\ mpc' = "create"
                        /\ mretries' = 0
                        /\ UNCHANGED sessionId
           ELSE /\ mpc' = IF it.next = "raise" THEN "failed" ELSE "list"
                /\ mretries' = it.retries
                /\ UNCHANGED sessionId
    /\ UNCHANGED <<sessions, messages, nextSid, nextMid, now>>
    /\ UNCHANGED <<mounts, tpc, tretries, reply, isLoading, faults>>
    /\ UNCHANGED nonAppVars

\* one attempt of the mount effect's POST /api/sessions, and on its success
\* setSessionId(newSess._id)
MountCreate(d) ==
    /\ mpc = "create" /\ LoopCond(mretries)
    /\ IF Handled(d)
       THEN /\ nextSid <= MaxMounts
            /\ \E t \in Stamps : ServeCreateSession(CurrentUser, "First Chat", t)
       ELSE UNCHANGED <<users, sessions, nextSid, now>>
    /\ LET it == AppIteration(mretries, ClientSees(d, 200))
       IN  IF it.next = "return"
           THEN /\ sessionId' = nextSid
                /\ mpc' = "done"
                /\ UNCHANGED mretries
           ELSE /\ mpc' = IF it.next = "raise" THEN "failed" ELSE "create"
                /\ mretries' = it.retries
                /\ UNCHANGED sessionId
    /\ UNCHANGED <<messages, nextMid>>
    /\ UNCHANGED <<mounts, tpc, tretries, reply, isLoading, faults>>
    /\ UNCHANGED nonAppVars

\* another client of the API creates a session under the identifier the
\* mount effect lists with
OtherClientCreates ==
    /\ nextSid <= MaxMounts
    /\ \E t \in Stamps : ServeCreateSession(MountListHeader, "New Chat", t)
    /\ UNCHANGED <<messages, nextMid>>
    /\ UNCHANGED appVars
    /\ UNCHANGED nonAppVars

MountNext ==
    \/ MountStart
    \/ \E d \in Deliveries : MountList(d)
    \/ \E d \in Deliveries : MountCreate(d)
    \/ OtherClientCreates

CanSend_notLoading == sessionId # 0 /\ ~isLoading

\* sendPrompt's entry test, for a typed text and the stored user_id:
\* if (!text || !sessionId || !userId) return
CanSend == sessionId # 0

\* the order of the awaits in sendPrompt's try block
AfterStep(step) ==
    IF step = "saveUser" THEN "chat"
    ELSE IF step = "chat" THEN "saveBot"
    ELSE "done"

OnRaise_goOn(step) == AfterStep(step)

\* an await that raises leaves the try block for the catch
OnRaise(step) == "failed"

\* sendPrompt is called (Send button, or Enter in the input box)
SendPrompt(k) ==
    /\ CanSend
    /\ tpc[k] = "idle"
    /\ \A i \in Turns : i < k => tpc[i] # "idle"
    /\ tpc' = [tpc EXCEPT ![k] = "saveUser"]
    /\ tretries' = [tretries EXCEPT ![k] = 0]
    /\ isLoading' = TRUE
    /\ UNCHANGED <<sessionId, mpc, mretries, mounts, reply, faults>>
    /\ UNCHANGED <<users, sessions, messages, nextSid, nextMid, now>>
    /\ UNCHANGED nonAppVars

\* the environment's choice for one fetch of a sendPrompt action
Delivered(d) ==
    /\ d # "served" => faults < MaxFaults
    /\ faults' = IF d = "served" THEN faults ELSE faults + 1

\* what a fetchDataWithBackoff iteration of action k leads to at step `step`
TurnAdvance(k, step, it) ==
    /\ tpc' = [tpc EXCEPT ![k] =
                  IF it.next = "return" THEN AfterStep(step)
                  ELSE IF it.next = "raise" THEN OnRaise(step)
                  ELSE step]
    /\ tretries' = [tretries EXCEPT ![k] = IF it.next = "again" THEN it.retries ELSE 0]
    /\ isLoading' = IF it.next = "raise" \/ (it.next = "return" /\ AfterStep(step) = "done")
                    THEN FALSE ELSE isLoading

\* the message handler's payload test
PayloadInvalid(role, text) == role = "" \/ text = ""

TimestampOrder_desc(a, b) == a.timestamp >= b.timestamp

\* .sort('timestamp')
TimestampOrder(a, b) == a.timestamp <= b.timestamp

\* every order in which the sort may give the documents of S: a document no
\* other precedes comes first, documents with equal keys in either order
RECURSIVE Sorted(_)
Sorted(S) ==
    IF S = {} THEN {<<>>}
    ELSE UNION {{<<x>> \o q : q \in Sorted(S \ {x})} :
                   x \in {y \in S : \A z \in S : TimestampOrder(y, z)}}

\* Message.find({ sessionId }).sort('timestamp')
MessagesOldestFirst(sid) == Sorted(MessagesOf(sid))

\* one attempt of step 1 (role 'user', the prompt) or step 3 (role 'bot', the
\* reply) of sendPrompt: POST /api/sessions/:sid/messages
TurnSave(k, d) ==
    /\ tpc[k] \in {"saveUser", "saveBot"} /\ LoopCond(tretries[k])
    /\ Delivered(d)
    /\ LET role == IF tpc[k] = "saveUser" THEN "user" ELSE "bot"
           text == IF tpc[k] = "saveUser" THEN Prompt(k) ELSE reply[k]
           bad == PayloadInvalid(role, text)
       IN  /\ users' = IF Handled(d) THEN ServeAuth(CurrentUser) ELSE users
           /\ IF Handled(d) /\ ~bad
              THEN /\ nextMid <= MaxChatMsgs
                   /\ \E t \in Stamps :
                         /\ messages' = messages \cup
                               {[id |-> nextMid, sessionId |-> sessionId, role |-> role,
                                 text |-> text, timestamp |-> t]}
                         /\ now' = t
                   /\ nextMid' = nextMid + 1
              ELSE UNCHANGED <<messages, nextMid, now>>
           /\ TurnAdvance(k, tpc[k], AppIteration(tretries[k], ClientSees(d, IF bad THEN 400 ELSE 200)))
    /\ UNCHANGED <<sessions, nextSid>>
    /\ UNCHANGED <<sessionId, mpc, mretries, mounts, reply>>
    /\ UNCHANGED nonAppVars

\* one attempt of step 2 of sendPrompt: POST /api/groq; the completion call
\* takes time, and its text is kept as the reply
TurnChat(k, d) ==
    /\ tpc[k] = "chat" /\ LoopCond(tretries[k])
    /\ Delivered(d)
    /\ users' = IF Handled(d) THEN ServeAuth(CurrentUser) ELSE users
    /\ now' = IF Handled(d) THEN now + 1 ELSE now
    /\ LET it == AppIteration(tretries[k], ClientSees(d, 200))
       IN  /\ TurnAdvance(k, "chat", it)
           /\ reply' = [reply EXCEPT ![k] =
                           IF it.next = "return" THEN Completion(Prompt(k)) ELSE @]
    /\ UNCHANGED <<sessions, messages, nextSid, nextMid>>
    /\ UNCHANGED <<sessionId, mpc, mretries, mounts>>
    /\ UNCHANGED nonAppVars

ChatNext ==
    \/ \E k \in Turns : SendPrompt(k)
    \/ \E k \in Turns, d \in Deliveries : TurnSave(k, d)
    \/ \E k \in Turns, d \in Deliveries : TurnChat(k, d)

AppInit ==
    /\ sessionId = 0
    /\ mpc = "idle"
    /\ mretries = 0
    /\ mounts = 0
    /\ tpc = [k \in Turns |-> "idle"]
    /\ tretries = [k \in Turns |-> 0]
    /\ reply = [k \in Turns |-> ""]
    /\ isLoading = FALSE
    /\ faults = 0

\* the page after its first load against an empty store: the mount effect has
\* listed (as MountListHeader), created the first session and selected it
ChatInit ==
    /\ FetchInit
    /\ DidInit
    /\ users = {CurrentUser, MountListHeader}
    /\ sessions = {[id |-> 1, userId |-> CurrentUser, title |-> "First Chat", createdAt |-> 1]}
    /\ messages = {}
    /\ nextSid = 2
    /\ nextMid = 1
    /\ now = 1
    /\ reqs = [r \in Slots |-> FreeReq]
    /\ lastResp = NoLastResp
    /\ sessionId = 1
    /\ mpc = "done"
    /\ mretries = 0
    /\ mounts = 1
    /\ tpc = [k \in Turns |-> "idle"]
    /\ tretries = [k \in Turns |-> 0]
    /\ reply = [k \in Turns |-> ""]
    /\ isLoading = FALSE
    /\ faults = 0

----------------------------------------------------------------------------
(* Specifications *)

Init == FetchInit /\ DidInit /\ BackInit /\ AppInit

SpecFetch == Init /\ [][FetchNext]_vars

SpecDid == Init /\ [][DidNext]_vars

SpecBackend == Init /\ [][BackNext]_vars

SpecRace == Init /\ [][RaceNext]_vars

SpecMount == Init /\ [][MountNext]_vars

SpecChat == ChatInit /\ [][ChatNext]_vars

\* the timers fire and every fetch() settles: a suspended call takes its next step
SpecFetchFair ==
    /\ SpecFetch
    /\ WF_vars(\E o \in Outcomes, j \in Jitters :
                  AttemptOk(o) \/ AttemptRateLimited(o, j) \/ AttemptCaught(o, j))

----------------------------------------------------------------------------
(* Properties of the client retry loop *)

Terminal == {"returned", "raised"}

RespSuccess(o) == ~o.net /\ o.status \in 200..299

Resp429(o) == ~o.net /\ o.status = 429

RespHard(o) == ~o.net /\ o.status \notin 200..299 /\ o.status # 429

All429(h) == \A i \in 1..Len(h) : Resp429(h[i])

\* the error object an attempt produced, if any (a 429 response produces none)
ErrOf(o) ==
    IF o.net THEN NetworkError
    ELSE IF RespHard(o) THEN HttpError(o.status)
    ELSE NoErr

\* C1: in App.fetchDataWithBackoff, an attempt answered with a non-success
\* status other than 429 is the last attempt of the call: the call raises the
\* HTTP error on that attempt, with no sleep after it and no further request.
C1_HardErrorRaisesAtOnce ==
    site = "App" =>
        \A i \in 1..Len(hist) :
            RespHard(hist[i]) =>
                /\ i = Len(hist)
                /\ pc = "raised"
                /\ result.err = HttpError(hist[i].status)
                /\ Len(sleeps) = i - 1

\* C2: in App.fetchDataWithBackoff, after k < maxRetries responses that were
\* all 429 the call is still running with k requests and k sleeps done, and
\* when the next response is a success the call returns that response, having
\* issued k+1 requests and slept k times.
C2_RateLimitedThenSuccess ==
    site = "App" /\ hist # <<>> =>
        LET n == Len(hist)
            k == n - 1
        IN  /\ (All429(hist) /\ n < maxRetries) =>
                 pc = "loop" /\ nreq = n /\ Len(sleeps) = n
            /\ (All429(SubSeq(hist, 1, k)) /\ RespSuccess(hist[n])) =>
                 /\ k < maxRetries
                 /\ pc = "returned"
                 /\ result = [kind |-> "returned", status |-> hist[n].status, err |-> NoErr]
                 /\ nreq = k + 1
                 /\ Len(sleeps) = k

C2_Witness ==
    /\ site = "App"
    /\ pc = "returned"
    /\ Len(hist) = 3
    /\ Resp429(hist[1]) /\ Resp429(hist[2])
    /\ hist[3] = [net |-> FALSE, status |-> 200]
    /\ Len(sleeps) = 2

\* C3: in App.fetchDataWithBackoff, when every attempt is answered 429 the
\* call never returns, issues no more than maxRetries requests, and after the
\* maxRetries-th request it has raised an error.
C3_All429Raises ==
    (site = "App" /\ All429(hist)) =>
        /\ pc # "returned"
        /\ Len(hist) <= maxRetries
        /\ nreq = Len(hist)
        /\ Len(hist) = maxRetries => (pc = "raised" /\ result.kind = "raised")

C3_Witness ==
    /\ site = "App"
    /\ Len(hist) = maxRetries
    /\ All429(hist)
    /\ pc = "raised"
    /\ nreq = 3

\* C4: whatever the outcomes of the attempts, a call issues at most
\* maxRetries+1 requests, and a running call eventually returns or raises.
C4_BoundedAndTerminates ==
    /\ [](nreq <= maxRetries + 1 /\ nreq = Len(hist))
    /\ (pc = "loop" ~> pc \in Terminal)

C4_Witness ==
    /\ pc \in Terminal
    /\ nreq = maxRetries
    /\ \E i \in 1..Len(hist) : hist[i].net
    /\ \E i \in 1..Len(hist) : Resp429(hist[i])
    /\ \E i \in 1..Len(hist) : RespHard(hist[i])

\* C5: when App.fetchDataWithBackoff raises, the error raised is the error of
\* the last attempt made; and a network error on an attempt before the last
\* permitted one is followed by a sleep and another request.
C5_LastErrorPropagated ==
    site = "App" =>
        /\ pc = "raised" => result.err = ErrOf(hist[Len(hist)])
        /\ \A i \in 1..Len(hist) :
              (hist[i].net /\ i < maxRetries) =>
                  /\ Len(sleeps) >= i
                  /\ (pc = "loop" \/ Len(hist) > i)

\* C6: at every call site, a call whose permitted attempts were all answered
\* 429 ends raised, never returned.
C6_All429Rejects ==
    (All429(hist) /\ Len(hist) = maxRetries) => pc = "raised"

----------------------------------------------------------------------------
(* Properties of the D-ID handler *)

PollPending(p) == ~p.thrown /\ p.url \in Absent \cup {""}

PollReady(p) == ~p.thrown /\ p.url \notin Absent \cup {""}

AllPending(h) == \A i \in 1..Len(h) : PollPending(h[i])

InPollLoop == dpc \in {"waiting", "polling"}

\* C7: when the job-creation response carries no job identifier, the handler
\* has answered 500 with the submission error, and no wait and no status poll
\* has happened.
C7_NoIdNoPoll ==
    (created # NoCreate /\ ~created.thrown /\ created.id \in Absent \cup {""}) =>
        /\ dpc = "done"
        /\ dresp = [status |-> 500, body |-> "Failed to start D-ID generation"]
        /\ dwaits = 0
        /\ delapsed = 0
        /\ dhist = <<>>

C7_Witness ==
    /\ dpc = "done"
    /\ created = [thrown |-> FALSE, id |-> "undefined"]
    /\ dresp.status = 500

\* C8 as stated: for k status responses without a result followed by one with
\* result_url = X, the handler has waited exactly k times and responds with X.
C8_WaitsKTimes ==
    (dhist # <<>> /\ AllPending(SubSeq(dhist, 1, Len(dhist) - 1))
                  /\ PollReady(dhist[Len(dhist)])) =>
        /\ dpc = "done"
        /\ dresp = [status |-> 200, body |-> dhist[Len(dhist)].url]
        /\ dwaits = Len(dhist) - 1

\* C8 amended: for k status responses without a result followed by one with
\* result_url = X, the handler has waited the 2000-unit interval exactly k+1
\* times (once before every status request, the first included) and responds
\* with X; while every response so far lacked the result, the loop goes on,
\* each request preceded by one wait.
C8_WaitsBeforeEveryPoll ==
    /\ (created # NoCreate /\ AllPending(dhist) /\ ~created.thrown /\ ~Falsy(created.id)) =>
          /\ InPollLoop
          /\ dwaits = Len(dhist) + (IF dpc = "polling" THEN 1 ELSE 0)
          /\ delapsed = 2000 * dwaits
    /\ (dhist # <<>> /\ AllPending(SubSeq(dhist, 1, Len(dhist) - 1))
                     /\ PollReady(dhist[Len(dhist)])) =>
          /\ dpc = "done"
          /\ dresp = [status |-> 200, body |-> dhist[Len(dhist)].url]
          /\ dwaits = Len(dhist)
          /\ delapsed = 2000 * Len(dhist)

C8_Witness ==
    /\ dpc = "done"
    /\ Len(dhist) = 3
    /\ PollPending(dhist[1]) /\ PollPending(dhist[2])
    /\ dhist[3] = [thrown |-> FALSE, url |-> "X"]
    /\ dresp = [status |-> 200, body |-> "X"]
    /\ dwaits = 3

\* C9 as stated: once polling has started, the loop goes on after every status
\* response that lacks the result, and the handler answers only on a status
\* response carrying a non-null result, with that value.
C9_OnlyExitIsResult ==
    [][InPollLoop =>
          /\ (dpc = "polling" /\ dhist' # dhist /\ PollPending(dhist'[Len(dhist')])) =>
                dpc' = "waiting"
          /\ dpc' = "done" =>
                /\ dhist' # dhist
                /\ ~dhist'[Len(dhist')].thrown
                /\ dhist'[Len(dhist')].url \notin Absent
                /\ dresp' = [status |-> 200, body |-> dhist'[Len(dhist')].url]
      ]_vars

\* C9 amended: once polling has started, the loop goes on after every status
\* response whose result_url is absent, null or empty, whatever the number of
\* polls so far; the handler answers only when a status response carries a
\* non-empty result_url (200 with that value) or when a status request fails
\* (500 from the catch block).
C9_ExitIsResultOrFailure ==
    [][InPollLoop =>
          /\ (dpc = "polling" /\ dhist' # dhist /\ PollPending(dhist'[Len(dhist')])) =>
                /\ dpc' = "waiting"
                /\ dresp' = NoResp
          /\ dpc' = "done" =>
                /\ dpc = "polling"
                /\ dhist' # dhist
                /\ \/ /\ PollReady(dhist'[Len(dhist')])
                      /\ dresp' = [status |-> 200, body |-> dhist'[Len(dhist')].url]
                   \/ /\ dhist'[Len(dhist')].thrown
                      /\ dresp' = [status |-> 500, body |-> "D-ID API failed"]
      ]_vars

C9_Witness ==
    /\ dpc = "done"
    /\ Len(dhist) = MaxPendingPolls + 1
    /\ AllPending(SubSeq(dhist, 1, MaxPendingPolls))
    /\ dresp.status = 200

----------------------------------------------------------------------------
(* Properties of the backend *)

\* C10: a request without the X-User-Id header, on any route, is answered 401
\* by the middleware: it never gets past the middleware (no handler runs for
\* it), and the step that answers it leaves the User, Session and Message
\* collections as they were.
C10_NoHeaderRejected ==
    /\ [](\A r \in Slots : reqs[r].pc # "free" => reqs[r].hdr # "")
    /\ [](lastResp.hdr = "" => (lastResp.status = 401 /\ ~lastResp.ran))
    /\ [][(lastResp' # lastResp /\ lastResp'.hdr = "") => UNCHANGED storeVars]_vars

C10_Witness ==
    /\ lastResp = [hdr |-> "", status |-> 401, data |-> <<>>, ran |-> FALSE]
    /\ users # {}
    /\ sessions # {}
    /\ messages # {}

----------------------------------------------------------------------------
(* Backoff delays *)

BackoffFloors == <<1000, 2000, 4000>>

\* C17: the n-th delay of a call (n counted from 0, the value of the retry
\* counter when the delay is computed), whether it follows a 429 or a caught
\* error, is at least 1000 * 2^n and less than 1000 * 2^n + 1000; a call
\* sleeps at most three times, with floors 1000, 2000, 4000.
C17_DelayWindow ==
    /\ Len(sleeps) <= 3
    /\ Len(sleeps) = retries
    /\ \A i \in 1..Len(sleeps) :
          /\ BackoffFloors[i] <= sleeps[i]
          /\ sleeps[i] < BackoffFloors[i] + 1000

C17_Witness ==
    /\ Len(sleeps) = 3
    /\ hist[1].net
    /\ Resp429(hist[2])
    /\ RespHard(hist[3]) \/ Resp429(hist[3])
    /\ sleeps[1] = 1999
    /\ sleeps[3] = 4000

----------------------------------------------------------------------------
(* Concurrent requests of one user *)

\* C11: with requests of the same not yet registered user interleaved in the
\* middleware, every request that carries the header gets past the middleware
\* with its user attached (users, a set keyed by the unique index, never holds
\* two records of one identifier)
C11_EveryRequestGetsUser ==
    /\ \A r \in Slots : reqs[r].pc \notin {"free", "mwFind", "mwCreate"}
                          => reqs[r].user = reqs[r].hdr /\ reqs[r].user \in users
    /\ (lastResp.hdr = RaceUser /\ lastResp.status # 401) => lastResp.ran

\* C12: the step in which DELETE /api/sessions/:sid answers 204 leaves a store
\* with neither the session nor any message of that session
C12_DeleteCascades ==
    [][\A r \in Slots :
          (reqs[r].pc = "deleteSession" /\ reqs'[r].pc = "free" /\ lastResp'.status = 204)
          => /\ \A x \in sessions' : x.id # reqs[r].sid
             /\ \A m \in messages' : m.sessionId # reqs[r].sid]_vars

CrashBetween(r) ==
    /\ reqs[r].pc = "deleteSession"
    /\ lastResp'.hdr = "crash"
    /\ lastResp'.data = <<reqs[r].sid>>

\* C13, as stated: a crash between the two store operations of a delete of the
\* caller's own session leaves messages of the session in the store while the
\* session record is gone
C13_CrashLeavesOrphans ==
    [][\A r \in Slots :
          (CrashBetween(r) /\ Owned(r) # {})
          => /\ \E m \in messages' : m.sessionId = reqs[r].sid
             /\ \A x \in sessions' : x.id # reqs[r].sid]_vars

\* C13, amended: the first store operation of a delete removes every message
\* of the session and leaves the session records alone; a crash before the
\* second operation changes nothing in the store, so a session the caller owns
\* is still there after the crash
C13_CrashKeepsSession ==
    [][\A r \in Slots :
          /\ (InHandler(r, "DELETE /api/sessions/:sid") /\ reqs'[r].pc = "deleteSession")
             => /\ \A m \in messages' : m.sessionId # reqs[r].sid
                /\ sessions' = sessions
          /\ CrashBetween(r)
             => /\ sessions' = sessions
                /\ messages' = messages
                /\ \A x \in Owned(r) : x \in sessions']_vars

C13_Witness ==
    /\ lastResp.hdr = "crash"
    /\ lastResp.data = <<1>>
    /\ \E x \in sessions : x.id = 1 /\ x.userId = RaceUser
    /\ nextMid > 1
    /\ MessagesOf(1) = {}

----------------------------------------------------------------------------
(* Deletes that are refused *)

\* C18: with one request served at a time, no step of a DELETE
\* /api/sessions/:sid whose caller owns no session of that id (the request
\* that is answered 404) changes the stored sessions or messages
C18_RefusedDeleteChangesNothing ==
    [][\A r \in SerialSlots :
          (/\ reqs[r].route = "DELETE /api/sessions/:sid"
           /\ reqs[r].pc \in {"handler", "deleteSession"}
           /\ Owned(r) = {})
          => (sessions' = sessions /\ messages' = messages)]_vars

----------------------------------------------------------------------------
(* The App component *)

\* C19: the mount effect goes on to create a session, and a session is created
\* by it, only when the current user has no session; the session it selects
\* belongs to the current user
C19_MountSelectsOwnSession ==
    [][/\ (mpc = "list" /\ mpc' = "create") => SessionsOf(CurrentUser) = {}
       /\ (mpc = "create" /\ sessions' # sessions) => SessionsOf(CurrentUser) = {}
       /\ (mpc \in {"list", "create"} /\ sessionId' # 0)
          => \E x \in sessions' : x.id = sessionId' /\ x.userId = CurrentUser]_vars
\* the stored messages of sendPrompt action k in the selected session
UserMsgs(k) ==
    {m \in MessagesOf(sessionId) : m.role = "user" /\ m.text = Prompt(k)}

BotMsgs(k) ==
    {m \in MessagesOf(sessionId) : m.role = "bot" /\ m.text = Completion(Prompt(k))}

\* C14: once a sendPrompt action has completed, the session's stored messages
\* contain its user message and its bot reply, and every answer GET
\* /api/sessions/:sid/messages can give is in ascending timestamp order with
\* the action's user message before its bot reply
C14_TurnStoredInOrder ==
    \A k \in Turns :
        tpc[k] = "done"
        => LET own == UserMsgs(k)
               bot == BotMsgs(k)
               answers == MessagesOldestFirst(sessionId)
           IN  /\ own # {}
               /\ bot # {}
               /\ answers # {}
               /\ \A q \in answers :
                     /\ Len(q) = Cardinality(MessagesOf(sessionId))
                     /\ \A i \in 1..(Len(q) - 1) : q[i].timestamp <= q[i + 1].timestamp
                     /\ \A i, j \in 1..Len(q) :
                           (q[i] \in own /\ q[j] \in bot) => i < j

C14_Witness ==
    /\ tpc[1] = "done"
    /\ tpc[2] = "done"
    /\ Cardinality(MessagesOf(sessionId)) = 4
    /\ \E q \in MessagesOldestFirst(sessionId) :
          /\ q[1].text = "p2" /\ q[2].text = "p1"
          /\ q[3].text = "r1" /\ q[4].text = "r2"

C16_NothingSerialisesTurns ==
    \A k \in Turns :
        (sessionId # 0 /\ tpc[k] = "idle" /\ \A i \in Turns : i < k => tpc[i] # "idle")
        => ENABLED SendPrompt(k)

\* the stored order user1, user2, bot1, bot2
C16_Witness ==
    /\ \E m \in messages : m.id = 1 /\ m.role = "user" /\ m.text = Prompt(1)
    /\ \E m \in messages : m.id = 2 /\ m.role = "user" /\ m.text = Prompt(2)
    /\ \E m \in messages : m.id = 3 /\ m.role = "bot" /\ m.text = Completion(Prompt(1))
    /\ \E m \in messages : m.id = 4 /\ m.role = "bot" /\ m.text = Completion(Prompt(2))

====
